---- MODULE Spec2Model ----
(***************************************************************************)
(* Avalanche bulletin signage: the bulletin script                         *)
(* (src/bulletin/ava_bulletin_signage_fr.py) and the day-by-day backfill   *)
(* loop (src/scripts/backfill.py).                                         *)
(*                                                                         *)
(* Encoding of Python values:                                              *)
(*   None is <<>>, any other value v of an optional place is <<v>>;        *)
(*   a dict is a function whose domain is its set of keys (the empty dict  *)
(*   is the function with the empty domain); a list or tuple is a          *)
(*   sequence; a comment is a sequence of characters.                      *)
(***************************************************************************)
EXTENDS Integers, Sequences, FiniteSets, TLC

VARIABLES
    program,        \* which script this run is: "bulletin" or "backfill"
    pc,             \* position of the script
    data,           \* resp.json(): the fetched payload
    args_out,       \* args.out, the --out path
    region_info,    \* None or the matching feature's properties
    mainValue,      \* None until line 490 has assigned it
    subdiv_value,   \* None until line 491 has assigned it
    html_output,    \* the list of markup pieces
    groups,         \* the OrderedDict, as the sequence of its (key, value) items
    ap_index,       \* number of avalancheProblems records the loop has consumed
    normal_groups,
    other_groups,
    files,          \* paths written by this run
    icon_writes,    \* the save_compass calls, in order
    stdout,         \* the print calls, in order
    error,          \* "none" or the name of the uncaught exception
    start, end, days, i, ok,    \* backfill.py locals
    calls,          \* the subprocess.call invocations, in order: <<date, --out>>
    skipped,        \* the days reported on stderr as skipped
    archive         \* the dates whose output was copied to public/history

bulletin_vars == <<data, args_out, region_info, mainValue, subdiv_value, html_output,
                   groups, ap_index, normal_groups, other_groups, files, icon_writes,
                   stdout, error>>
backfill_vars == <<start, end, days, i, ok, calls, skipped, archive>>
vars == <<program, pc, bulletin_vars, backfill_vars>>

----------------------------------------------------------------------------
(* Python values *)

None == <<>>
Some(v) == <<v>>
EmptyDict == [k \in {} |-> None]

\* d.get(k): the value under k, None when the key is absent
Get(d, k) == IF k \in DOMAIN d THEN d[k] ELSE None
\* d.get(k, default)
GetDefault(d, k, default) == IF k \in DOMAIN d THEN d[k] ELSE default

\* truth value of an optional dict or list: None, {} and [] are false
Truthy(v) == v # None /\ v[1] # <<>>

\* all sequences over S of length at most n
SeqUpTo(S, n) == UNION {[1..m -> S] : m \in 0..n}

Range(s) == {s[j] : j \in 1..Len(s)}

----------------------------------------------------------------------------
(* Lookup tables, lines 390-438 and 441 *)

REGION_ID == "CH-4211"

warning_numbers ==
    [low |-> 1, moderate |-> 2, considerable |-> 3, high |-> 4] @@ ("very high" :> 5)

warnings == <<"faible", "limité", "marqué", "fort", "très fort">>

hex_warnings == <<"#ccff66", "#ffff00", "#ff9900", "#ff0000", "#ff0000">>

subdiv_dict == [neutral |-> "=", minus |-> "-", plus |-> "+", equal |-> "="]

snow_type ==
    [new_snow |-> "Neige fraîche", wind_slab |-> "Neige soufflée",
     gliding_snow |-> "Avalanches de glissement", wet_snow |-> "Neige mouillée",
     persistent_weak_layers |-> "Neige ancienne"]

aspects_dict ==
    [N |-> "N", NE |-> "NE", E |-> "E", SE |-> "SE", S |-> "S",
     SW |-> "SO", W |-> "O", NW |-> "NO"]

NO_DISTINCT == "no_distinct_avalanche_problem"

----------------------------------------------------------------------------
(* Grouping methods, lines 100-124 *)

\* _elev_key(elev): elev is None or <<dict>>
_elev_key(elev) ==
    IF ~Truthy(elev)
    THEN <<"all", None, None>>
    ELSE <<"range", Get(elev[1], "lowerBound"), Get(elev[1], "upperBound")>>

\* _aspects_key(aspects): aspects is None or <<list>>
_aspects_key(aspects) ==
    IF \/ aspects = None
       \/ aspects = Some(<<>>)
       \/ aspects = Some(<<"N", "NE", "E", "SE", "S", "SO", "O", "NO">>)
    THEN <<"all">>
    ELSE aspects[1]

IsSpace(c) == c = " "

RECURSIVE LStrip(_)
LStrip(s) == IF s # <<>> /\ IsSpace(Head(s)) THEN LStrip(Tail(s)) ELSE s

RECURSIVE RStrip(_)
RStrip(s) ==
    IF s # <<>> /\ IsSpace(s[Len(s)]) THEN RStrip(SubSeq(s, 1, Len(s) - 1)) ELSE s

\* str.strip()
Strip(s) == RStrip(LStrip(s))

\* _comment_key(c): c is None or <<characters>>
_comment_key(c) == Strip(IF c = None \/ c[1] = <<>> THEN <<>> ELSE c[1])

\* is_pure_other with any() in the place of all()
is_any_other(entries) ==
    \E j \in 1..Len(entries) : entries[j][1] = Some(NO_DISTINCT)

\* is_pure_other(entries)
is_pure_other(entries) ==
    \A j \in 1..Len(entries) : entries[j][1] = Some(NO_DISTINCT)

----------------------------------------------------------------------------
(* Danger level, lines 210-285 *)

\* the outcome of a call: the exception it raised ("none" if it returned) and
\* the value it returned
Returned(v) == [error |-> "none", value |-> v]
Raised(e) == [error |-> e, value |-> None]

\* warning_numbers.get(mainValue, mainValue) for a rating's label: the rank, or
\* None when the result is not a number (the label itself, or None)
NewWarning(dr) ==
    LET label == Get(dr, "mainValue")
    IN  IF label # None /\ label[1] \in DOMAIN warning_numbers
        THEN Some(warning_numbers[label[1]])
        ELSE None

\* lines 225-228 without the comparison: the new rank always replaces the old
KeepNew(new_warning, old_warning) == new_warning

\* lines 225-228: keep the new rank only if it is higher than the previous one
KeepHigher(new_warning, old_warning) ==
    IF new_warning > old_warning THEN new_warning ELSE old_warning

\* the loop of highest_warning from entry j on; local is the function's local
\* mainValue: None while it is unbound, <<rank>> after an iteration
RECURSIVE HighestLoop(_, _, _)
HighestLoop(ratings, j, local) ==
    IF j > Len(ratings)
    THEN IF local = None THEN Raised("UnboundLocalError") ELSE Returned(local[1])
    ELSE LET old_warning == IF local # None THEN local[1] ELSE 0
             new_warning == NewWarning(ratings[j])
         IN  IF new_warning = None
             THEN Raised("TypeError")    \* str > int, or None > int
             ELSE HighestLoop(ratings, j + 1,
                              Some(KeepHigher(new_warning[1], old_warning)))

highest_warning(ri) == HighestLoop(GetDefault(ri, "dangerRatings", <<>>), 1, None)

\* subdiv_dict.get(sub, sub), with None turned into ""
SubSign(sub) ==
    IF sub = None THEN ""
    ELSE IF sub[1] \in DOMAIN subdiv_dict THEN subdiv_dict[sub[1]] ELSE sub[1]

warning_subdivision(ri) ==
    LET ratings == GetDefault(ri, "dangerRatings", <<>>)
    IN  IF ratings = <<>> THEN Raised("IndexError")
        ELSE LET customData == Get(ratings[1], "customData")
             IN  IF customData = None THEN Raised("AttributeError")
                 ELSE LET ch == Get(customData[1], "CH")
                      IN  IF ch = None THEN Raised("AttributeError")
                          ELSE Returned(SubSign(Get(ch[1], "subdivision")))

\* html_header(mainValue, subdiv_value, warnings, hex_warnings), mainValue in 1..5
html_header(level, subdiv) ==
    [kind |-> "header",
     beacon |-> level >= 3,
     icon |-> "static/images/" \o ToString(level) \o ".png",
     colour |-> hex_warnings[level],
     on_background |-> hex_warnings[level] \in {"#ffff00", "#ccff66"},
     text |-> "Niveau de danger: " \o warnings[level]
              \o " (" \o ToString(level) \o subdiv \o ")"]

----------------------------------------------------------------------------
(* Compass file name, lines 90-93 *)

\* str.upper() on the direction words
Upper(e) ==
    LET table == [n |-> "N", ne |-> "NE", e |-> "E", se |-> "SE", s |-> "S",
                  so |-> "SO", o |-> "O", no |-> "NO", sw |-> "SW", w |-> "W",
                  nw |-> "NW"]
    IN  IF e \in DOMAIN table THEN table[e] ELSE e

\* the upper-case direction words in the order sorted() gives them
SortedWords == <<"E", "N", "NE", "NO", "NW", "O", "S", "SE", "SO", "SW", "W">>

\* sorted(words), duplicates kept
Sorted(words) ==
    LET Count(w) == Cardinality({j \in 1..Len(words) : words[j] = w})
        Rep(w) == [j \in 1..Count(w) |-> w]
        F[n \in 0..Len(SortedWords)] ==
            IF n = 0 THEN <<>> ELSE F[n - 1] \o Rep(SortedWords[n])
    IN  F[Len(SortedWords)]

\* sep.join(words)
RECURSIVE Join(_, _)
Join(sep, words) ==
    IF words = <<>> THEN ""
    ELSE IF Len(words) = 1 THEN words[1]
    ELSE words[1] \o sep \o Join(sep, Tail(words))

\* hashlib.md5(key).hexdigest()[:10], taken as injective: the digest of a key
\* is written as the key itself
Md5Hex10(key) == key

\* filename_for_expos without sorted(): the key follows the given order
filename_unsorted(expos) ==
    LET key == Join(",", [j \in 1..Len(expos) |-> Upper(expos[j])])
    IN  "compass_fr_" \o Md5Hex10(key) \o ".svg"

filename_for_expos(expos) ==
    LET key == Join(",", Sorted([j \in 1..Len(expos) |-> Upper(expos[j])]))
    IN  "compass_fr_" \o Md5Hex10(key) \o ".svg"

----------------------------------------------------------------------------
(* One pass of the grouping loop, lines 500-559 *)

\* lines 508-522 with the bounds tested by truth value, not against None: a
\* bound of 0 counts as missing
ElevTextTruthy(elev) ==
    IF Truthy(elev)
    THEN LET lower == Get(elev[1], "lowerBound")
             upper == Get(elev[1], "upperBound")
             Has(b) == b # None /\ b[1] # 0
         IN  IF ~Has(lower) /\ Has(upper)
             THEN [elev_text |-> "en dessous de " \o ToString(upper[1]) \o "m",
                   mountain_icon |-> "below_mountain.png"]
             ELSE IF ~Has(upper) /\ Has(lower)
             THEN [elev_text |-> "à plus de " \o ToString(lower[1]) \o "m",
                   mountain_icon |-> "above_mountain.png"]
             ELSE [elev_text |->
                       IF Has(lower) /\ Has(upper)
                       THEN ToString(lower[1]) \o "-" \o ToString(upper[1]) \o "m"
                       ELSE "toutes les altitudes",
                   mountain_icon |-> "all_mountain.png"]
    ELSE [elev_text |-> "toutes les altitudes", mountain_icon |-> "all_mountain.png"]

\* lines 508-522
ElevText(elev) ==
    IF Truthy(elev)
    THEN LET lower == Get(elev[1], "lowerBound")
             upper == Get(elev[1], "upperBound")
         IN  IF lower = None /\ upper # None
             THEN [elev_text |-> "en dessous de " \o ToString(upper[1]) \o "m",
                   mountain_icon |-> "below_mountain.png"]
             ELSE IF upper = None /\ lower # None
             THEN [elev_text |-> "à plus de " \o ToString(lower[1]) \o "m",
                   mountain_icon |-> "above_mountain.png"]
             ELSE [elev_text |->
                       IF lower # None /\ upper # None
                       THEN ToString(lower[1]) \o "-" \o ToString(upper[1]) \o "m"
                       ELSE "toutes les altitudes",
                   mountain_icon |-> "all_mountain.png"]
    ELSE [elev_text |-> "toutes les altitudes", mountain_icon |-> "all_mountain.png"]

\* aspects_dict.get(aspect), the aspect itself when it has no translation
FrAspect(aspect) ==
    IF aspect \in DOMAIN aspects_dict THEN aspects_dict[aspect] ELSE aspect

\* lines 525-539
ExpoText(aspects) ==
    IF \/ aspects = None
       \/ aspects = Some(<<>>)
       \/ aspects = Some(<<"N", "NE", "E", "SE", "S", "SW", "W", "NW">>)
    THEN [expo_text |-> "toutes les expositions",
          fr_asp_list |-> <<"N", "NE", "E", "SE", "S", "SO", "O", "NO">>]
    ELSE LET fr_asp_list == [j \in 1..Len(aspects[1]) |-> FrAspect(aspects[1][j])]
         IN  [expo_text |-> Join(", ", fr_asp_list), fr_asp_list |-> fr_asp_list]

\* line 503
GroupKey(ap) ==
    <<_elev_key(GetDefault(ap, "elevation", Some(EmptyDict))),
      _aspects_key(Get(ap, "aspects")),
      _comment_key(Get(ap, "comment"))>>

\* position of key k in the OrderedDict, 0 when k not in groups
KeyIndex(gs, k) ==
    IF \E j \in 1..Len(gs) : gs[j].key = k
    THEN CHOOSE j \in 1..Len(gs) : gs[j].key = k
    ELSE 0

\* lines 546-554: the value stored under a new key
NewGroup(ap, k) ==
    LET et == ElevText(GetDefault(ap, "elevation", Some(EmptyDict)))
        xt == ExpoText(Get(ap, "aspects"))
    IN  [key |-> k,
         problem_entries |-> <<>>,
         mountain_icon |-> et.mountain_icon,
         elev_text |-> et.elev_text,
         fname |-> filename_for_expos(xt.fr_asp_list),
         expo_text |-> xt.expo_text,
         comment |-> Get(ap, "comment"),
         raw |-> <<>>]

\* snow_type.get(pt, pt)
German(pt) ==
    IF pt # None /\ pt[1] \in DOMAIN snow_type THEN Some(snow_type[pt[1]]) ELSE pt

\* lines 556-559: append the record to the group at position j
AppendEntry(gs, j, ap) ==
    LET pt == Get(ap, "problemType")
    IN  [gs EXCEPT ![j].problem_entries = Append(@, <<pt, German(pt)>>),
                   ![j].raw = Append(@, ap)]

\* the loop body with the key looked up in the last group only
GroupsAfterLastOnly(gs, ap) ==
    LET k == GroupKey(ap)
    IN  IF gs # <<>> /\ gs[Len(gs)].key = k
        THEN AppendEntry(gs, Len(gs), ap)
        ELSE AppendEntry(Append(gs, NewGroup(ap, k)), Len(gs) + 1, ap)

\* the OrderedDict after the loop body has run for ap: lines 505, 546-559
GroupsAfter(gs, ap) ==
    LET k == GroupKey(ap)
    IN  IF KeyIndex(gs, k) = 0
        THEN AppendEntry(Append(gs, NewGroup(ap, k)), Len(gs) + 1, ap)
        ELSE AppendEntry(gs, KeyIndex(gs, k), ap)

----------------------------------------------------------------------------
(* Cards, lines 289-367 *)

\* lines 309-314 without the seen set: every entry gets a row
NoDedup(entries, seen) == entries

\* lines 309-314: the (pt, german) pairs whose pt was not seen before
RECURSIVE Dedup(_, _)
Dedup(entries, seen) ==
    IF entries = <<>> THEN <<>>
    ELSE IF Head(entries)[1] \in seen
    THEN Dedup(Tail(entries), seen)
    ELSE <<Head(entries)>> \o Dedup(Tail(entries), seen \cup {Head(entries)[1]})

\* str(x) of an optional string inside an f-string
Fmt(x) == IF x = None THEN "None" ELSE x[1]

\* lines 316-335: one row of the card
TypeRow(entry) ==
    IF entry[1] # Some(NO_DISTINCT)
    THEN [pt |-> entry[1],
          icon |-> Some("static/images/" \o Fmt(entry[1]) \o ".jpg"),
          label |-> Fmt(entry[2])]
    ELSE [pt |-> entry[1],
          icon |-> None,
          label |-> "Pas de problème avalancheux particulier"]

render_group_card(g) ==
    LET types == Dedup(g.problem_entries, {})
    IN  [kind |-> "card",
         key |-> g.key,
         rows |-> [j \in 1..Len(types) |-> TypeRow(types[j])],
         mountain_icon |-> g.mountain_icon,
         elev_text |-> g.elev_text,
         fname |-> g.fname,
         expo_text |-> g.expo_text,
         comment |-> g.comment]

----------------------------------------------------------------------------
(* The bulletin script, lines 468-589 *)

\* lines 470-472 without the comparison of line 471: any region matches
HasAnyRegion(feat) ==
    GetDefault(GetDefault(feat, "properties", EmptyDict), "regions", <<>>) # <<>>

\* lines 470-472: does the feature list a region with the configured ID
HasRegion(feat) ==
    LET regions == GetDefault(GetDefault(feat, "properties", EmptyDict), "regions", <<>>)
    IN  \E j \in 1..Len(regions) : Get(regions[j], "regionID") = Some(REGION_ID)

\* lines 468-475: the properties of the first feature that lists the region
FindRegion(payload) ==
    LET features == GetDefault(payload, "features", <<>>)
        hits == {j \in 1..Len(features) : HasRegion(features[j])}
    IN  IF hits = {} THEN None
        ELSE Some(features[CHOOSE j \in hits : \A h \in hits : j <= h].properties)

LookupRegion ==
    /\ program = "bulletin" /\ pc = "lookup"
    /\ region_info' = FindRegion(data)
    /\ pc' = "check"
    /\ UNCHANGED <<program, data, args_out, mainValue, subdiv_value, html_output, groups,
                   ap_index, normal_groups, other_groups, files, icon_writes, stdout,
                   error, backfill_vars>>

\* lines 478-479
RegionNotFound ==
    /\ program = "bulletin" /\ pc = "check"
    /\ ~Truthy(region_info)
    /\ stdout' = Append(stdout, "Region de " \o REGION_ID \o " introuvable.")
    /\ pc' = "done"
    /\ UNCHANGED <<program, data, args_out, region_info, mainValue, subdiv_value,
                   html_output, groups, ap_index, normal_groups, other_groups, files,
                   icon_writes, error, backfill_vars>>

\* lines 483-490
HighestWarning ==
    /\ program = "bulletin" /\ pc = "check"
    /\ Truthy(region_info)
    /\ html_output' = <<[kind |-> "styles"]>>
    /\ LET r == highest_warning(region_info[1])
       IN  IF r.error = "none"
           THEN mainValue' = Some(r.value) /\ pc' = "subdivision" /\ error' = error
           ELSE mainValue' = mainValue /\ pc' = "crashed" /\ error' = r.error
    /\ UNCHANGED <<program, data, args_out, region_info, subdiv_value, groups, ap_index,
                   normal_groups, other_groups, files, icon_writes, stdout,
                   backfill_vars>>

\* line 491
WarningSubdivision ==
    /\ program = "bulletin" /\ pc = "subdivision"
    /\ LET r == warning_subdivision(region_info[1])
       IN  IF r.error = "none"
           THEN subdiv_value' = Some(r.value) /\ pc' = "header" /\ error' = error
           ELSE subdiv_value' = subdiv_value /\ pc' = "crashed" /\ error' = r.error
    /\ UNCHANGED <<program, data, args_out, region_info, mainValue, html_output, groups,
                   ap_index, normal_groups, other_groups, files, icon_writes, stdout,
                   backfill_vars>>

\* lines 494-499
HtmlHeader ==
    /\ program = "bulletin" /\ pc = "header"
    /\ html_output' = Append(html_output, html_header(mainValue[1], subdiv_value[1]))
    /\ groups' = <<>>
    /\ pc' = "grouping"
    /\ UNCHANGED <<program, data, args_out, region_info, mainValue, subdiv_value,
                   ap_index, normal_groups, other_groups, files, icon_writes, stdout,
                   error, backfill_vars>>

Problems == GetDefault(region_info[1], "avalancheProblems", <<>>)

IconPath(fname) == "bulletin/static/images/" \o fname

\* lines 500-559: the loop body for the next record
GroupProblem ==
    /\ program = "bulletin" /\ pc = "grouping"
    /\ ap_index < Len(Problems)
    /\ LET ap == Problems[ap_index + 1]
           k == GroupKey(ap)
       IN  /\ groups' = GroupsAfter(groups, ap)
           /\ IF KeyIndex(groups, k) = 0
              THEN LET path == IconPath(NewGroup(ap, k).fname)    \* lines 542-543
                   IN  /\ icon_writes' = Append(icon_writes, path)
                       /\ files' = files \cup {path}
              ELSE UNCHANGED <<icon_writes, files>>
    /\ ap_index' = ap_index + 1
    /\ UNCHANGED <<program, pc, data, args_out, region_info, mainValue, subdiv_value,
                   html_output, normal_groups, other_groups, stdout, error,
                   backfill_vars>>

\* line 564, for one bucket: the groups, in order, whose is_pure_other is `other`
RECURSIVE Bucket(_, _)
Bucket(gs, other) ==
    IF gs = <<>> THEN <<>>
    ELSE IF is_pure_other(Head(gs).problem_entries) = other
    THEN <<Head(gs)>> \o Bucket(Tail(gs), other)
    ELSE Bucket(Tail(gs), other)

\* lines 561-564
PartitionGroups ==
    /\ program = "bulletin" /\ pc = "grouping"
    /\ ap_index = Len(Problems)
    /\ normal_groups' = Bucket(groups, FALSE)
    /\ other_groups' = Bucket(groups, TRUE)
    /\ pc' = "render"
    /\ UNCHANGED <<program, data, args_out, region_info, mainValue, subdiv_value,
                   html_output, groups, ap_index, files, icon_writes, stdout, error,
                   backfill_vars>>

\* the cards of a list of groups, in order
Cards(gs) == [j \in 1..Len(gs) |-> render_group_card(gs[j])]

\* lines 566-576
RenderCards ==
    /\ program = "bulletin" /\ pc = "render"
    /\ html_output' = html_output \o <<[kind |-> "grid"]>> \o Cards(normal_groups)
                      \o Cards(other_groups) \o <<[kind |-> "end grid"]>>
    /\ pc' = "footer"
    /\ UNCHANGED <<program, data, args_out, region_info, mainValue, subdiv_value, groups,
                   ap_index, normal_groups, other_groups, files, icon_writes, stdout,
                   error, backfill_vars>>

\* the attributes of the module that line 2 binds to the name datetime
DatetimeModule ==
    {"MINYEAR", "MAXYEAR", "UTC", "date", "datetime", "time", "timedelta", "timezone",
     "tzinfo"}

\* footer_date(ACTIVE_AT), lines 370-384: line 372 looks fromisoformat up on datetime
footer_date ==
    IF "fromisoformat" \in DatetimeModule
    THEN Returned([kind |-> "footer"])
    ELSE Raised("AttributeError")

\* lines 585-586: BASE is the directory of the script
out_path == "bulletin/signage_bulletin_fr.html"

\* lines 578-589
FinishDocument ==
    /\ program = "bulletin" /\ pc = "footer"
    /\ LET r == footer_date
       IN  IF r.error = "none"
           THEN /\ html_output' = html_output \o <<r.value, [kind |-> "end"]>>
                /\ files' = files \cup {out_path}
                /\ pc' = "done"
                /\ error' = error
           ELSE /\ pc' = "crashed"
                /\ error' = r.error
                /\ UNCHANGED <<html_output, files>>
    /\ UNCHANGED <<program, data, args_out, region_info, mainValue, subdiv_value, groups,
                   ap_index, normal_groups, other_groups, icon_writes, stdout,
                   backfill_vars>>

BulletinNext ==
    \/ LookupRegion
    \/ RegionNotFound
    \/ HighestWarning
    \/ WarningSubdivision
    \/ HtmlHeader
    \/ GroupProblem
    \/ PartitionGroups
    \/ RenderCards
    \/ FinishDocument

----------------------------------------------------------------------------
(* Dates of backfill.py: a date is <<year, month, day>> *)

IsLeap(y) == y % 4 = 0 /\ (y % 100 # 0 \/ y % 400 = 0)

DaysInMonth(y, m) ==
    IF m = 2 /\ IsLeap(y) THEN 29
    ELSE <<31, 28, 31, 30, 31, 30, 31, 31, 30, 31, 30, 31>>[m]

DaysBeforeYear(y) == (y - 1) * 365 + (y - 1) \div 4 - (y - 1) \div 100 + (y - 1) \div 400

RECURSIVE DaysBeforeMonth(_, _)
DaysBeforeMonth(y, m) ==
    IF m = 1 THEN 0 ELSE DaysBeforeMonth(y, m - 1) + DaysInMonth(y, m - 1)

\* date.toordinal()
ToOrdinal(d) == DaysBeforeYear(d[1]) + DaysBeforeMonth(d[1], d[2]) + d[3]

\* the day after d
NextDay(d) ==
    IF d[3] < DaysInMonth(d[1], d[2]) THEN <<d[1], d[2], d[3] + 1>>
    ELSE IF d[2] < 12 THEN <<d[1], d[2] + 1, 1>>
    ELSE <<d[1] + 1, 1, 1>>

\* d + timedelta(days=n), n >= 0
RECURSIVE PlusDays(_, _)
PlusDays(d, n) == IF n = 0 THEN d ELSE PlusDays(NextDay(d), n - 1)

Pad2(n) == IF n < 10 THEN "0" \o ToString(n) ELSE ToString(n)

\* d.isoformat()
IsoFormat(d) == ToString(d[1]) \o "-" \o Pad2(d[2]) \o "-" \o Pad2(d[3])

\* line 26
OutFile(d) == "bulletin/output/bulletin_" \o IsoFormat(d) \o ".html"

----------------------------------------------------------------------------
(* backfill.py main, lines 23-49 *)

\* line 15 without the + 1
DayCountExclusive(s, e) == ToOrdinal(e) - ToOrdinal(s)

\* line 15
DayCount(s, e) == ToOrdinal(e) - ToOrdinal(s) + 1

\* line 34: the day is skipped
DayFailed(rc, exists) == rc # 0 \/ ~exists

\* lines 25-47: one pass of the loop. The renderer it starts is a separate
\* process: its exit code and whether the output file exists afterwards are
\* whatever that process leaves
BackfillDay ==
    /\ program = "backfill" /\ pc = "loop"
    /\ i < days
    /\ \E rc \in {0, 1}, exists \in BOOLEAN :
          LET d == PlusDays(start, i)
          IN  /\ calls' = Append(calls, [date |-> d, out |-> OutFile(d),
                                         rc |-> rc, exists |-> exists])
              /\ IF DayFailed(rc, exists)
                 THEN /\ skipped' = Append(skipped, <<d, rc>>)
                      /\ UNCHANGED <<archive, ok>>
                 ELSE /\ archive' = archive \cup {d}
                      /\ ok' = ok + 1
                      /\ UNCHANGED skipped
    /\ i' = i + 1
    /\ UNCHANGED <<program, pc, start, end, days, bulletin_vars>>

\* line 49, after range(days) is exhausted
BackfillFinish ==
    /\ program = "backfill" /\ pc = "loop"
    /\ i >= days
    /\ stdout' = Append(stdout, "Built " \o ToString(ok) \o "/" \o ToString(days) \o " days")
    /\ pc' = "done"
    /\ UNCHANGED <<program, data, args_out, region_info, mainValue, subdiv_value,
                   html_output, groups, ap_index, normal_groups, other_groups, files,
                   icon_writes, error, backfill_vars>>

BackfillNext == BackfillDay \/ BackfillFinish

----------------------------------------------------------------------------
(* Inputs *)

MaxFeatures == 2
MaxRatings == 3
MaxProblems == 3
MaxKeyProblems == 2
MaxDays == 3

Rating(label, fields) == ("mainValue" :> Some(label)) @@ fields

\* the customData of a rating: absent, without CH, CH without subdivision,
\* and CH with a subdivision
CustomDatas ==
    {EmptyDict,
     "customData" :> Some(EmptyDict),
     "customData" :> Some([CH |-> Some(EmptyDict)])}
    \cup {"customData" :> Some([CH |-> Some([subdivision |-> Some(m)])]) :
            m \in {"plus", "minus", "neutral"}}

PlusRating(label) ==
    Rating(label, "customData" :> Some([CH |-> Some([subdivision |-> Some("plus")])]))

\* every label with one modifier, and one label with every form of customData
RatingInputs ==
    {PlusRating(l) : l \in DOMAIN warning_numbers}
    \cup {Rating("moderate", c) : c \in CustomDatas}

Chars(word) ==
    CASE word = "" -> <<>>
      [] word = "a" -> <<"a">>
      [] word = " a" -> <<" ", "a">>
      [] word = "a " -> <<"a", " ">>
      [] word = "b" -> <<"b">>

Problem(pt, elevation, aspects, comment) == pt @@ elevation @@ aspects @@ comment

TypeFields(types) == {"problemType" :> Some(t) : t \in types}

\* problems that differ in type, in key, or in both
GroupingProblems ==
    {Problem(t, e, EmptyDict, c) :
        t \in TypeFields({"wind_slab", "new_snow", NO_DISTINCT}),
        e \in {EmptyDict, "elevation" :> Some([lowerBound |-> Some(2200)])},
        c \in {"comment" :> Some(Chars("a")), "comment" :> Some(Chars("b"))}}

\* the ways a payload writes elevation, aspects and comment
ElevationFields ==
    {EmptyDict,
     "elevation" :> None,
     "elevation" :> Some(EmptyDict),
     "elevation" :> Some([lowerBound |-> None, upperBound |-> None]),
     "elevation" :> Some([lowerBound |-> Some(2200)]),
     "elevation" :> Some([lowerBound |-> Some(2200), upperBound |-> None]),
     "elevation" :> Some([upperBound |-> Some(1800)]),
     "elevation" :> Some([lowerBound |-> Some(0)]),
     "elevation" :> Some([lowerBound |-> Some(1800), upperBound |-> Some(2200)])}

UpstreamOrder == <<"N", "NE", "E", "SE", "S", "SW", "W", "NW">>

AspectFields ==
    {EmptyDict,
     "aspects" :> None,
     "aspects" :> Some(<<>>),
     "aspects" :> Some(UpstreamOrder),
     "aspects" :> Some(<<"N", "NE">>),
     "aspects" :> Some(<<"NE", "N">>),
     "aspects" :> Some(<<"W", "NW", "N">>),
     "aspects" :> Some(SubSeq(UpstreamOrder, 1, 7))}

CommentFields ==
    {EmptyDict, "comment" :> None}
    \cup {"comment" :> Some(Chars(w)) : w \in {"", "a", " a", "a "}}

\* every way of writing elevation and aspects together, and every way of
\* writing the comment
KeyProblems ==
    {Problem(t, e, a, EmptyDict) :
        t \in TypeFields({"wind_slab"}), e \in ElevationFields, a \in AspectFields}
    \cup {Problem(t, EmptyDict, EmptyDict, c) :
            t \in TypeFields({"wind_slab"}) \cup {EmptyDict}, c \in CommentFields}

Region(id) == [regionID |-> Some(id)]

Properties(regions, ratings, problems) ==
    [regions |-> regions, dangerRatings |-> ratings, avalancheProblems |-> problems]

Feature(regions, ratings, problems) ==
    [properties |-> Properties(regions, ratings, problems)]

OneProblem == Problem("problemType" :> Some("wind_slab"), EmptyDict, EmptyDict, EmptyDict)

\* a payload whose only feature lists the configured region
RegionPayload(ratings, problems) ==
    [features |-> <<Feature(<<Region(REGION_ID)>>, ratings, problems)>>]

\* a payload without the configured region
OtherPayload ==
    [features |-> <<Feature(<<Region("CH-1111")>>, <<PlusRating("low")>>, <<OneProblem>>)>>]

FeatureInputs ==
    {EmptyDict}
    \cup {Feature(regions, ratings, <<OneProblem>>) :
            regions \in SeqUpTo({Region(REGION_ID), Region("CH-1111")}, 2),
            ratings \in {<<>>, <<PlusRating("low")>>, <<PlusRating("high")>>}}

OutInputs == {"bulletin/output/bulletin.html", "bulletin/output/bulletin_2025-01-01.html"}

BaseDates == {<<2024, 2, 27>>, <<2024, 12, 30>>, <<2025, 2, 27>>}

----------------------------------------------------------------------------
(* Specifications *)

\* the bulletin script after line 460, with payload fetched and --out parsed
BulletinStart(payload, out) ==
    /\ program = "bulletin" /\ pc = "lookup"
    /\ data = payload
    /\ args_out = out
    /\ region_info = None
    /\ mainValue = None
    /\ subdiv_value = None
    /\ html_output = <<>>
    /\ groups = <<>>
    /\ ap_index = 0
    /\ normal_groups = <<>>
    /\ other_groups = <<>>
    /\ files = {}
    /\ icon_writes = <<>>
    /\ stdout = <<>>
    /\ error = "none"
    /\ start = <<>> /\ end = <<>> /\ days = 0 /\ i = 0 /\ ok = 0
    /\ calls = <<>> /\ skipped = <<>> /\ archive = {}

\* backfill.py after line 23
BackfillStart(s, e) ==
    /\ program = "backfill" /\ pc = "loop"
    /\ start = s /\ end = e
    /\ days = DayCount(s, e)
    /\ i = 0 /\ ok = 0
    /\ calls = <<>> /\ skipped = <<>> /\ archive = {}
    /\ data = EmptyDict
    /\ args_out = ""
    /\ region_info = None
    /\ mainValue = None
    /\ subdiv_value = None
    /\ html_output = <<>>
    /\ groups = <<>>
    /\ ap_index = 0
    /\ normal_groups = <<>>
    /\ other_groups = <<>>
    /\ files = {}
    /\ icon_writes = <<>>
    /\ stdout = <<>>
    /\ error = "none"

\* the dates of the windows that open at the base dates: the end of a February
\* in a leap year and in a common year, and the end of a year
DateInputs == {PlusDays(b, n) : b \in BaseDates, n \in 0..(MaxDays + 1)}

InitBulletin ==
    \E features \in SeqUpTo(FeatureInputs, MaxFeatures), out \in OutInputs :
        BulletinStart([features |-> features], out)

InitBackfill ==
    \E s \in DateInputs, e \in DateInputs :
        DayCount(s, e) \in -1..MaxDays /\ BackfillStart(s, e)

Init == InitBulletin \/ InitBackfill

Next == BulletinNext \/ BackfillNext

\* either script, on the payloads that vary the regions
Spec == Init /\ [][Next]_vars

InitRatings ==
    \E payload \in {OtherPayload}
                   \cup {RegionPayload(r, <<OneProblem>>) :
                           r \in SeqUpTo(RatingInputs, MaxRatings)} :
        BulletinStart(payload, "bulletin/output/bulletin.html")

\* the bulletin script on the payloads that vary the danger ratings
SpecRatings == InitRatings /\ [][BulletinNext]_vars

InitGrouping ==
    \E payload \in {OtherPayload}
                   \cup {RegionPayload(<<PlusRating("considerable")>>, p) :
                           p \in SeqUpTo(GroupingProblems, MaxProblems)} :
        BulletinStart(payload, "bulletin/output/bulletin.html")

\* the bulletin script on the payloads that vary the problems of a few keys
SpecGrouping == InitGrouping /\ [][BulletinNext]_vars

InitKeys ==
    \E payload \in {OtherPayload}
                   \cup {RegionPayload(<<PlusRating("considerable")>>, p) :
                           p \in SeqUpTo(KeyProblems, MaxKeyProblems)} :
        BulletinStart(payload, "bulletin/output/bulletin.html")

\* the bulletin script on the payloads that vary how a key is written
SpecKeys == InitKeys /\ [][BulletinNext]_vars

MaxElevationProblems == 2
MaxIconProblems == 2

\* every way of writing elevation, a bound of 0 alone and with the other bound
\* among them, on records without aspects and comment
ElevationProblems ==
    {Problem(t, e, EmptyDict, EmptyDict) :
        t \in TypeFields({"wind_slab"}),
        e \in ElevationFields
              \cup {"elevation" :> Some([upperBound |-> Some(0)]),
                    "elevation" :> Some([lowerBound |-> Some(0), upperBound |-> Some(1800)]),
                    "elevation" :> Some([lowerBound |-> None, upperBound |-> Some(1800)])}}

InitElevation ==
    \E payload \in {OtherPayload}
                   \cup {RegionPayload(<<PlusRating("considerable")>>, p) :
                           p \in SeqUpTo(ElevationProblems, MaxElevationProblems)} :
        BulletinStart(payload, "bulletin/output/bulletin.html")

\* the bulletin script on the payloads that vary the elevation of a record
SpecElevation == InitElevation /\ [][BulletinNext]_vars

\* the ways of writing aspects that matter to the compass: no restriction,
\* one set in two orders, in lower case, with a direction twice, and other sets
IconAspects ==
    {EmptyDict,
     "aspects" :> Some(<<>>),
     "aspects" :> Some(UpstreamOrder),
     "aspects" :> Some(<<"N", "NE">>),
     "aspects" :> Some(<<"NE", "N">>),
     "aspects" :> Some(<<"ne", "N">>),
     "aspects" :> Some(<<"N", "N">>),
     "aspects" :> Some(<<"N">>),
     "aspects" :> Some(<<"W", "NW", "N">>)}

\* each of these aspects at two elevations, and one record that differs from
\* another by its comment only
IconProblems ==
    {Problem(t, e, a, EmptyDict) :
        t \in TypeFields({"wind_slab"}),
        e \in {EmptyDict, "elevation" :> Some([lowerBound |-> Some(2200)])},
        a \in IconAspects}
    \cup {Problem("problemType" :> Some("wind_slab"), EmptyDict,
                  "aspects" :> Some(<<"N", "NE">>), "comment" :> Some(Chars("a")))}

InitIcons ==
    \E payload \in {OtherPayload}
                   \cup {RegionPayload(<<PlusRating("considerable")>>, p) :
                           p \in SeqUpTo(IconProblems, MaxIconProblems)} :
        BulletinStart(payload, "bulletin/output/bulletin.html")

\* the bulletin script on the payloads that vary the aspects of a record
SpecIcons == InitIcons /\ [][BulletinNext]_vars

----------------------------------------------------------------------------
(* Properties of the grouping loop *)

\* the bulletin script has found the region: Problems is defined
Grouping == program = "bulletin" /\ Truthy(region_info)

\* the records the loop has consumed so far
Consumed == SubSeq(Problems, 1, ap_index)

\* the positions of the groups that hold record ap
GroupsOf(ap) == {g \in 1..Len(groups) : ap \in Range(groups[g].raw)}

\* C1: after the loop has consumed any sequence of records there is one group
\* per distinct key of the sequence, no two groups share a key, and each
\* record's problem type is an entry of the group that has the record's key
C1_OneGroupPerKey ==
    Grouping =>
        /\ Len(groups) = Cardinality({GroupKey(Consumed[j]) : j \in 1..Len(Consumed)})
        /\ \A g, h \in 1..Len(groups) : groups[g].key = groups[h].key => g = h
        /\ \A j \in 1..Len(Consumed) :
              \E g \in 1..Len(groups) :
                  /\ groups[g].key = GroupKey(Consumed[j])
                  /\ \E e \in 1..Len(groups[g].problem_entries) :
                        groups[g].problem_entries[e][1] = Get(Consumed[j], "problemType")

\* three records consumed, the first and the third with one key and the
\* second with another, filed in two groups
C1_Witness ==
    /\ Grouping /\ pc = "render"
    /\ Len(Consumed) = 3
    /\ GroupKey(Consumed[1]) = GroupKey(Consumed[3])
    /\ GroupKey(Consumed[1]) # GroupKey(Consumed[2])
    /\ Len(groups) = 2
    /\ Len(groups[1].problem_entries) = 2

\* the aspects a record carries
AspectsOf(ap) == Get(ap, "aspects")

\* C2: a record whose aspects are null, empty or the full list in the payload's
\* order N,NE,E,SE,S,SW,W,NW is filed under the aspects key ('all',), any other
\* record under its directions in the given order
C2_AspectsKey ==
    Grouping =>
        \A g \in 1..Len(groups) : \A r \in 1..Len(groups[g].raw) :
            LET aspects == AspectsOf(groups[g].raw[r])
            IN  groups[g].key[2] =
                    IF aspects \in {None, Some(<<>>), Some(UpstreamOrder)}
                    THEN <<"all">>
                    ELSE aspects[1]

\* "no restriction", as a payload may write it
NoElevation(ap) ==
    \/ "elevation" \notin DOMAIN ap
    \/ ap.elevation = Some(EmptyDict)
    \/ ap.elevation = Some([lowerBound |-> None, upperBound |-> None])

NoAspects(ap) ==
    \/ "aspects" \notin DOMAIN ap
    \/ ap.aspects = Some(<<>>)
    \/ ap.aspects = Some(UpstreamOrder)

\* C3: two consumed records of one problem type and one trimmed comment, each
\* without a restriction of elevation or aspects however it writes that, are
\* filed in the same group
C3_NoRestrictionOneGroup ==
    Grouping =>
        \A a, b \in 1..Len(Consumed) :
            (/\ NoElevation(Consumed[a]) /\ NoElevation(Consumed[b])
             /\ NoAspects(Consumed[a]) /\ NoAspects(Consumed[b])
             /\ Get(Consumed[a], "problemType") = Get(Consumed[b], "problemType")
             /\ _comment_key(Get(Consumed[a], "comment"))
                    = _comment_key(Get(Consumed[b], "comment")))
            => GroupsOf(Consumed[a]) = GroupsOf(Consumed[b])

----------------------------------------------------------------------------
(* Properties of the danger level *)

Ratings == GetDefault(region_info[1], "dangerRatings", <<>>)

\* the rank of the j-th rating's label
RankOf(j) == warning_numbers[Ratings[j].mainValue[1]]

\* line 490 has been passed, by returning or by raising
PastHighest == Grouping /\ pc \notin {"lookup", "check"}

\* C4: for a non-empty list of ratings with labels of the table, highest_warning
\* returns a rank that no entry exceeds and that some entry has
C4_HighestRank ==
    (PastHighest /\ Ratings # <<>>) =>
        /\ mainValue # None
        /\ \A j \in 1..Len(Ratings) : RankOf(j) <= mainValue[1]
        /\ \E j \in 1..Len(Ratings) : RankOf(j) = mainValue[1]

\* low, high, moderate: the maximum stands in the middle and 4 is returned
C4_Witness ==
    /\ PastHighest
    /\ Len(Ratings) = 3
    /\ RankOf(1) = 1 /\ RankOf(2) = 4 /\ RankOf(3) = 2
    /\ mainValue = Some(4)

\* line 491 has been passed, by returning or by raising
PastSubdivision == PastHighest /\ mainValue # None /\ pc # "subdivision"

\* the regional modifier of a rating, None when the rating carries none
ModifierOf(dr) ==
    IF Get(dr, "customData") = None THEN None
    ELSE IF Get(dr.customData[1], "CH") = None THEN None
    ELSE Get(dr.customData[1].CH[1], "subdivision")

\* C5: warning_subdivision returns the symbol of the first rating's modifier,
\* and the empty string when the first rating carries no modifier
C5_FirstModifier ==
    PastSubdivision =>
        subdiv_value =
            Some(CASE ModifierOf(Ratings[1]) = None -> ""
                   [] ModifierOf(Ratings[1]) = Some("plus") -> "+"
                   [] ModifierOf(Ratings[1]) = Some("minus") -> "-"
                   [] ModifierOf(Ratings[1]) \in {Some("neutral"), Some("equal")} -> "=")

----------------------------------------------------------------------------
(* Properties of the cards *)

\* the cards of the document, in the order they were rendered
RECURSIVE CardsIn(_)
CardsIn(pieces) ==
    IF pieces = <<>> THEN <<>>
    ELSE IF Head(pieces).kind = "card" THEN <<Head(pieces)>> \o CardsIn(Tail(pieces))
    ELSE CardsIn(Tail(pieces))

Rendered == Grouping /\ pc \in {"footer", "done", "crashed"} /\ ap_index = Len(Problems)
                     /\ Len(html_output) > 2

\* the positions of the input records with key k
RecordsOf(k) == {j \in 1..Len(Problems) : GroupKey(Problems[j]) = k}

\* the position where key k is first seen in the input
FirstSeen(k) == CHOOSE j \in RecordsOf(k) : \A h \in RecordsOf(k) : j <= h

\* a key is ordinary if some record with it is not the sentinel type
Ordinary(k) == \E j \in RecordsOf(k) : Get(Problems[j], "problemType") # Some(NO_DISTINCT)

\* C6: there is one card per key; no card of an all-sentinel group stands before
\* a card of an ordinary group, and two cards of the same bucket stand in the
\* order in which their keys were first seen
C6_TwoBucketOrder ==
    Rendered =>
        LET cards == CardsIn(html_output)
        IN  /\ {cards[c].key : c \in 1..Len(cards)}
                   = {GroupKey(Problems[j]) : j \in 1..Len(Problems)}
            /\ \A c, d \in 1..Len(cards) :
                  c < d =>
                      /\ cards[c].key # cards[d].key
                      /\ Ordinary(cards[d].key) => Ordinary(cards[c].key)
                      /\ Ordinary(cards[c].key) = Ordinary(cards[d].key)
                             => FirstSeen(cards[c].key) < FirstSeen(cards[d].key)

\* three groups, the all-sentinel one seen first and rendered last, the second
\* one ordinary although it holds a sentinel record too
C6_Witness ==
    /\ Rendered
    /\ Len(Problems) = 3
    /\ LET cards == CardsIn(html_output)
       IN  /\ Len(cards) = 2
           /\ FirstSeen(cards[2].key) = 1
           /\ FirstSeen(cards[1].key) = 2
           /\ ~Ordinary(cards[2].key)
           /\ \E j \in RecordsOf(cards[1].key) :
                 Get(Problems[j], "problemType") = Some(NO_DISTINCT)

\* the position of the first record with key k and problem type pt
FirstOfType(k, pt) ==
    CHOOSE j \in RecordsOf(k) :
        /\ Get(Problems[j], "problemType") = pt
        /\ \A h \in RecordsOf(k) : Get(Problems[h], "problemType") = pt => j <= h

\* C7: the rows of a card show each problem type of the group's records once,
\* in the order in which the types first occur among those records
C7_OneRowPerType ==
    Rendered =>
        LET cards == CardsIn(html_output)
        IN  \A c \in 1..Len(cards) :
                LET rows == cards[c].rows
                    k == cards[c].key
                IN  /\ {rows[r].pt : r \in 1..Len(rows)}
                           = {Get(Problems[j], "problemType") : j \in RecordsOf(k)}
                    /\ \A r, q \in 1..Len(rows) :
                          r < q => /\ rows[r].pt # rows[q].pt
                                   /\ FirstOfType(k, rows[r].pt) < FirstOfType(k, rows[q].pt)

\* two records of one key and one type rendered as one card with one row
C7_Witness ==
    /\ Rendered
    /\ Len(Problems) = 2
    /\ Problems[1] = Problems[2]
    /\ LET cards == CardsIn(html_output)
       IN  Len(cards) = 1 /\ Len(cards[1].rows) = 1

----------------------------------------------------------------------------
(* Properties of a whole run of the bulletin script *)

\* the region IDs the payload lists, feature by feature
ListedIDs ==
    LET features == GetDefault(data, "features", <<>>)
    IN  UNION {{r.regionID : r \in Range(features[f].properties.regions)} :
                  f \in {f \in 1..Len(features) : "properties" \in DOMAIN features[f]}}

RegionAbsent == program = "bulletin" /\ Some(REGION_ID) \notin ListedIDs

\* the HTML files among the files written
HtmlFiles == files \ {icon_writes[j] : j \in 1..Len(icon_writes)}

\* C8: when no region of the payload has the configured ID, the run raises no
\* error and writes no file, and it ends after printing the one message
C8_RegionNotFound ==
    RegionAbsent =>
        /\ error = "none"
        /\ files = {} /\ icon_writes = <<>> /\ html_output = <<>>
        /\ pc \in {"lookup", "check", "done"}
        /\ pc # "done" => stdout = <<>> /\ ENABLED BulletinNext
        /\ pc = "done" => stdout = <<"Region de CH-4211 introuvable.">>

\* a payload with two features that list other regions only, run to its end
C8_Witness ==
    /\ RegionAbsent
    /\ pc = "done"
    /\ Len(data.features) = 2
    /\ ListedIDs = {Some("CH-1111")}
    /\ stdout # <<>>

\* C9: when the region is in the payload with at least one rating, the run ends
\* without an error, having written exactly one HTML file, at the --out path
C9_WritesOut ==
    (/\ program = "bulletin" /\ ~RegionAbsent
     /\ pc \in {"done", "crashed"}
     /\ Ratings # <<>>)
    => /\ pc = "done" /\ error = "none"
       /\ HtmlFiles = {args_out}

----------------------------------------------------------------------------
(* Properties of the backfill loop *)

\* date d is before date e
Before(d, e) ==
    \/ d[1] < e[1]
    \/ d[1] = e[1] /\ d[2] < e[2]
    \/ d[1] = e[1] /\ d[2] = e[2] /\ d[3] < e[3]

\* C10: the renderer is started once per date, in ascending order from start on
\* with no date left out; a day is archived exactly when its run left exit
\* code 0 and its output file, and is reported as skipped otherwise; ok counts
\* the archived days; and when the loop has ended the days started are all the
\* dates from start to end, whatever the outcome of each
C10_EveryDayOnce ==
    program = "backfill" =>
        /\ \A j \in 1..Len(calls) :
              /\ ToOrdinal(calls[j].date) = ToOrdinal(start) + j - 1
              /\ calls[j].out = OutFile(calls[j].date)
              /\ j > 1 => Before(calls[j - 1].date, calls[j].date)
        /\ archive = {calls[j].date : j \in {j \in 1..Len(calls) :
                                                calls[j].rc = 0 /\ calls[j].exists}}
        /\ {skipped[j][1] : j \in 1..Len(skipped)}
               = {calls[j].date : j \in 1..Len(calls)} \ archive
        /\ ok = Cardinality(archive)
        /\ pc = "done" =>
              /\ Len(calls) = IF Before(end, start) THEN 0
                              ELSE ToOrdinal(end) - ToOrdinal(start) + 1
              /\ calls # <<>> => calls[1].date = start /\ calls[Len(calls)].date = end
        /\ pc # "done" => ENABLED BackfillNext

\* three days across the end of a month: the first fails by its exit code, the
\* second by its missing file, and the third is archived
C10_Witness ==
    /\ program = "backfill" /\ pc = "done"
    /\ Len(calls) = 3
    /\ calls[1].date[2] # calls[3].date[2]
    /\ calls[1].rc # 0
    /\ calls[2].rc = 0 /\ ~calls[2].exists
    /\ archive = {end}
    /\ ok = 1

----------------------------------------------------------------------------
(* Properties of the compass icons *)

\* the directions a record's compass shows, as line 525-537 passes them on
DirectionsOf(ap) ==
    IF NoAspects(ap) \/ Get(ap, "aspects") = None
    THEN <<"N", "NE", "E", "SE", "S", "SO", "O", "NO">>
    ELSE [j \in 1..Len(ap.aspects[1]) |-> FrAspect(ap.aspects[1][j])]

\* how often the upper-case word w stands among the directions of a record
TimesIn(ap, w) ==
    LET ds == DirectionsOf(ap)
    IN  Cardinality({j \in 1..Len(ds) : Upper(ds[j]) = w})

\* two records have the same exposure set: the same upper-case directions,
\* each as often, in whatever order
SameExposure(a, b) == \A w \in Range(SortedWords) : TimesIn(a, w) = TimesIn(b, w)

\* C11 as stated: no icon file is written a second time in one run
C11_NoSecondWrite ==
    Grouping =>
        \A j, k \in 1..Len(icon_writes) : j # k => icon_writes[j] # icon_writes[k]

\* C11: save_compass is called once per group, in the order of the groups and
\* with the group's filename; two groups have the same filename exactly when
\* they have the same exposure set, so the files written are one per exposure
\* set
C11_OneFilePerExposure ==
    Grouping =>
        /\ Len(icon_writes) = Len(groups)
        /\ \A g \in 1..Len(groups) : icon_writes[g] = IconPath(groups[g].fname)
        /\ \A g, h \in 1..Len(groups) :
              (groups[g].fname = groups[h].fname)
                  <=> SameExposure(groups[g].raw[1], groups[h].raw[1])
        /\ \A g \in 1..Len(groups) : \A r \in 1..Len(groups[g].raw) :
              SameExposure(groups[g].raw[r], groups[g].raw[1])
        /\ files \ {out_path} = {IconPath(groups[g].fname) : g \in 1..Len(groups)}

\* two groups of the same directions in another order and at another
\* elevation: one filename, written twice
C11_Witness ==
    /\ Grouping /\ Len(groups) = 2
    /\ groups[1].key[1] # groups[2].key[1]
    /\ groups[1].key[2] = <<"N", "NE">> /\ groups[2].key[2] = <<"NE", "N">>
    /\ groups[1].fname = groups[2].fname
    /\ icon_writes = <<IconPath(groups[1].fname), IconPath(groups[1].fname)>>
    /\ Cardinality(files) = 1

----------------------------------------------------------------------------
(* Properties of the elevation text *)

\* the bound of a record's elevation under key b, None when the record has no
\* elevation, an empty or null one, or one without b or with b null
BoundOf(ap, b) ==
    IF "elevation" \notin DOMAIN ap \/ ap.elevation = None THEN None
    ELSE Get(ap.elevation[1], b)

\* C12: a group's elevation text and mountain icon follow from which bounds its
\* records know: the upper one only, the lower one only, both, or none; a
\* bound of 0 is known
C12_ElevationText ==
    Grouping =>
        \A g \in 1..Len(groups) : \A r \in 1..Len(groups[g].raw) :
            LET lower == BoundOf(groups[g].raw[r], "lowerBound")
                upper == BoundOf(groups[g].raw[r], "upperBound")
                text == groups[g].elev_text
                icon == groups[g].mountain_icon
            IN  /\ (lower = None /\ upper # None) =>
                      /\ text = "en dessous de " \o ToString(upper[1]) \o "m"
                      /\ icon = "below_mountain.png"
                /\ (lower # None /\ upper = None) =>
                      /\ text = "à plus de " \o ToString(lower[1]) \o "m"
                      /\ icon = "above_mountain.png"
                /\ (lower # None /\ upper # None) =>
                      /\ text = ToString(lower[1]) \o "-" \o ToString(upper[1]) \o "m"
                      /\ icon = "all_mountain.png"
                /\ (lower = None /\ upper = None) =>
                      /\ text = "toutes les altitudes"
                      /\ icon = "all_mountain.png"

\* a group above 0 m and a group from 0 to 1800 m
C12_Witness ==
    /\ Grouping /\ Len(groups) = 2
    /\ Get(groups[1].raw[1], "elevation") = Some([lowerBound |-> Some(0)])
    /\ groups[1].elev_text = "à plus de 0m"
    /\ groups[1].mountain_icon = "above_mountain.png"
    /\ Get(groups[2].raw[1], "elevation")
           = Some([lowerBound |-> Some(0), upperBound |-> Some(1800)])
    /\ groups[2].elev_text = "0-1800m"
    /\ groups[2].mountain_icon = "all_mountain.png"

====
